---- MODULE Spec2Model ----
(***************************************************************************)
(* Model of mqtt-rrp-py: EventEmitter (src/src/event_emitter.py) and       *)
(* MQTTRequestResponseProtocol (src/src/mqtt_rrp.py).                      *)
(*                                                                         *)
(* One coordinator instance, one transport client.  Every public method    *)
(* and every transport callback is one action.  A Python exception that    *)
(* leaves a method is recorded in `fault`; the state changes the method    *)
(* made before the raise are kept, as in Python.  All calls are made on a  *)
(* thread with a running asyncio loop, so asyncio.create_task can schedule.*)
(***************************************************************************)
EXTENDS Integers, Sequences, FiniteSets, Bags, TLC

(* ------------------------------ bounds -------------------------------- *)
MaxRequests == 2     \* request() calls in one behaviour
MaxRegistered == 2   \* listeners registered at once, over all events
MaxOnce == 1         \* once-wrappers alive for one (event, listener) pair
MaxTasks == 1        \* tasks scheduled on the loop and not yet run

(* ------------------------------ values -------------------------------- *)
None == "None"

\* self.identifier, fixed at construction (mqtt_rrp.py:35)
identifier == "me"

\* topics a message can arrive on / be published to
Topics == {identifier, "other"}

\* str(uuid.uuid4()) of the i-th request() call: fresh on every call
UUIDs == <<"u1", "u2", "u3", "u4", "u5", "u6">>
uuid4(i) == UUIDs[i]

RequestIds == {uuid4(i) : i \in 1..MaxRequests}

\* the events the coordinator names in __on_connect and __on_message
LifecycleEvents == {"connected", "error", "message"}

\* events a consumer registers listeners for and emits itself: `error`,
\* which the coordinator emits too, and `connected`
UserEvents == {"connected", "error"}

\* event names: the lifecycle events and the request ids
Events == LifecycleEvents \cup RequestIds

\* callables a user can register: async def (coroutine function) or def
Callables == {"co1", "fn1"}
IsCoroutineFunction(f) == f = "co1"

\* subscription lists a caller can hand to initialize
TopicLists == { << <<"a", 0>> >>, << <<"b", 1>>, <<"a", 0>> >> }

\* connect result codes of the transport
ResultCodes == {0, 5}

\* the payload a consumer passes when it calls emit itself
UserPayload == 7

\* a registered listener object: a user callable (once = FALSE, n = 0) or
\* the n-th live closure `wrapper` made by once() around `fn`
Plain(f) == [fn |-> f, once |-> FALSE, n |-> 0]
Wrapper(f, k) == [fn |-> f, once |-> TRUE, n |-> k]

\* payloads handed to emit
NoEnv == [ts |-> 0, data |-> None, from_topic |-> None, request_id |-> None, callback_id |-> None]
IntPayload(rc) == [t |-> "int", v |-> rc, s |-> None, env |-> NoEnv]
\* f'Invalid payload. Topic: {msg.topic}' (mqtt_rrp.py:131)
InvalidPayloadText(topic) == [t |-> "str", v |-> 0, s |-> topic, env |-> NoEnv]
ObjPayload(e) == [t |-> "obj", v |-> 0, s |-> None, env |-> e]

(* --------------------------- wire bytes -------------------------------- *)
\* Bytes on the wire.  json = "object": the text of a JSON object with the
\* members in obj; "scalar": the text of a JSON number; "invalid": bytes
\* that are no JSON text.
JsonObject(rid, cid) ==
    [json |-> "object",
     obj |-> [ts |-> 0, data |-> "d", from_topic |-> "peer", request_id |-> rid, callback_id |-> cid]]
JsonScalar == [json |-> "scalar", obj |-> NoEnv]
InvalidBytes == [json |-> "invalid", obj |-> NoEnv]

InboundBytes ==
    {InvalidBytes, JsonScalar, JsonObject("q1", None)}
        \cup {JsonObject(None, c) : c \in RequestIds \cup LifecycleEvents}

VARIABLES
    topics,        \* self.topics
    initialized,   \* self.initialized
    bound,         \* client.on_connect / client.on_message are set
    listeners,     \* self.listeners: defaultdict(set), a function on its keys
    tasks,         \* bag of [listener, payload] scheduled by create_task
    requests,      \* requests[i]: what the i-th request() call came to
    lastOp,        \* the operation that ran last and its arguments
    fault,         \* exception that left the last operation, or None
    emitted,       \* emit calls entered by the last operation
    ran,           \* listener bodies run by the last operation
    calls          \* transport calls made by the last operation

vars == <<topics, initialized, bound, listeners, tasks, requests, lastOp, fault, emitted, ran, calls>>

Op(name, topic, rc, bytes, ev, fn) ==
    [op |-> name, topic |-> topic, rc |-> rc, bytes |-> bytes, ev |-> ev, fn |-> fn]

NoBytes == [json |-> "none", obj |-> NoEnv]

ClientCall(m, ts, t, b) == [m |-> m, topics |-> ts, topic |-> t, bytes |-> b]

(* ----------------------------- registry -------------------------------- *)
\* self.listeners[event]: defaultdict(set) inserts an empty set for a
\* missing key on every subscript read
Touch(L, event) ==
    IF event \in DOMAIN L THEN L
    ELSE [e \in DOMAIN L \cup {event} |-> IF e = event THEN {} ELSE L[e]]

Registered(L) == UNION {{<<e, x>> : x \in L[e]} : e \in DOMAIN L}

SetAt(L, event, S) == [Touch(L, event) EXCEPT ![event] = S]

\* EventEmitter.__init__ / MQTTRequestResponseProtocol.__init__
Init ==
    /\ topics = <<>>
    /\ initialized = FALSE
    /\ bound = FALSE
    /\ listeners = <<>>
    /\ tasks = EmptyBag
    /\ requests = <<>>
    /\ lastOp = Op("__init__", None, -1, NoBytes, None, None)
    /\ fault = None
    /\ emitted = <<>>
    /\ ran = <<>>
    /\ calls = <<>>

(* ------------------------------- emit ---------------------------------- *)
\* what one call of a method leaves behind
Result(L, sched, r, exc, em, cs) ==
    [L |-> L, sched |-> sched, ran |-> r, exc |-> exc, emitted |-> em, calls |-> cs]

Task(f, payload) == [fn |-> f, payload |-> payload]

BagOf(S) == [x \in S |-> 1]

\* listeners of S that the loop of emit gets past: calling an async def
\* returns a coroutine and create_task schedules it
PassesLoop(x) == ~x.once /\ IsCoroutineFunction(x.fn)

\* how the call that emit makes for listener x can end.  The body of an
\* async def does not run in the call (a failure of it stays in its task);
\* the body of a def runs in the call and may raise.  When the call returns,
\* its result is None and create_task(None) raises TypeError.
CallOutcomes(x) ==
    IF IsCoroutineFunction(x.fn) THEN {"TypeError"} ELSE {"TypeError", "ListenerError"}

\* EventEmitter.emit(event, payload): the body, lines 75-76.
\* The set is iterated in an arbitrary order.  A coroutine function yields a
\* coroutine, which create_task schedules.  A plain function runs at once and
\* returns None, and create_task(None) raises TypeError out of emit.  A
\* once-wrapper removes itself, hands listener(payload) to create_task and
\* returns None, so create_task(None) raises TypeError out of emit as well.
\* The listeners after the raising one in iteration order are not called.
emit_body(L, event, payload) ==
    LET L1 == Touch(L, event)
        S == L1[event]
        stoppers == {x \in S : ~PassesLoop(x)}
        em == << [event |-> event, payload |-> payload] >>
    IN  IF stoppers = {}
        THEN { Result(L1, BagOf({Task(x.fn, payload) : x \in S}), <<>>, None, em, <<>>) }
        ELSE { LET x == sp[1] IN
               Result(IF x.once THEN [L1 EXCEPT ![event] = S \ {x}] ELSE L1,
                      BagOf({Task(y.fn, payload) : y \in P})
                        (+) (IF x.once /\ IsCoroutineFunction(x.fn)
                             THEN BagOf({Task(x.fn, payload)}) ELSE EmptyBag),
                      IF IsCoroutineFunction(x.fn) THEN <<>> ELSE << Task(x.fn, payload) >>,
                      sp[2], em, <<>>)
               : sp \in {<<x, e>> \in stoppers \X {"TypeError", "ListenerError"} : e \in CallOutcomes(x)},
                 P \in SUBSET (S \ stoppers) }

\* A call self.emit(*args): emit takes exactly (event, payload), line 64
emit(L, event, args) ==
    IF Len(args) # 1
    THEN { Result(L, EmptyBag, <<>>, "TypeError", <<>>, <<>>) }
    ELSE emit_body(L, event, args[1])

(* ------------------------------- codec --------------------------------- *)
\* a Python value: pytype is the class of the object, items its content
PyValue(pytype, items) == [pytype |-> pytype, items |-> items]

\* json.loads(payload), line 80: a JSON object decodes to a dict, a JSON
\* number to an int, anything else raises json.JSONDecodeError
deserialize(bytes) ==
    CASE bytes.json = "object" -> [exc |-> None, val |-> PyValue("dict", bytes.obj)]
      [] bytes.json = "scalar" -> [exc |-> None, val |-> PyValue("int", NoEnv)]
      [] OTHER -> [exc |-> "JSONDecodeError", val |-> PyValue("NoneType", NoEnv)]

\* HasAttr as it would be if a dict gave its keys as attributes
HasAttrOrKey(val) == val.pytype \in {"TPayload", "dict"}

\* attribute access obj.name: only an instance of TPayload could carry the
\* envelope fields as attributes; a dict keeps them as keys
HasAttr(val) == val.pytype = "TPayload"

\* class TPayload, lines 7-12: annotations only, no __init__, so a call with
\* keyword arguments raises TypeError
TPayload(kwargs) ==
    IF DOMAIN kwargs # {}
    THEN [exc |-> "TypeError", val |-> PyValue("NoneType", NoEnv)]
    ELSE [exc |-> None, val |-> PyValue("TPayload", NoEnv)]

\* json.dumps(obj): an instance of a plain class is not JSON serializable
json_dumps(val) ==
    IF val.pytype = "dict"
    THEN [exc |-> None, bytes |-> [json |-> "object", obj |-> val.items]]
    ELSE [exc |-> "TypeError", bytes |-> NoBytes]

\* __serialize(data, request_id, callback_id), line 94
serialize(data, request_id, callback_id) ==
    LET p == TPayload([ts |-> 0, data |-> data, from_topic |-> identifier,
                       request_id |-> request_id, callback_id |-> callback_id])
    IN  IF p.exc # None THEN [exc |-> p.exc, bytes |-> NoBytes]
        ELSE json_dumps(p.val)

(* --------------------------- coordinator ------------------------------- *)
\* __on_connect(client, userdata, flags, rc), lines 109-114; the value of
\* self.initialized after the call is computed by on_connect_initialized
on_connect_initialized(was, rc) == IF rc = 0 THEN TRUE ELSE was

on_connect(L, subscription, rc) ==
    IF rc = 0
    THEN { IF o.exc # None THEN o
           ELSE [o EXCEPT !.calls = << ClientCall("subscribe", subscription, None, NoBytes) >>]
           : o \in emit(L, "connected", <<>>) }
    ELSE emit(L, "error", << IntPayload(rc) >>)

\* lines 133-137, reached with `payload` bound to val
route(L, topic, val) ==
    IF ~HasAttr(val)
    THEN { Result(L, EmptyBag, <<>>, "AttributeError", <<>>, <<>>) }
    ELSE IF val.items.callback_id # None /\ topic = identifier
         THEN emit(L, val.items.callback_id, << ObjPayload(val.items) >>)
         ELSE emit(L, "message", << ObjPayload(val.items) >>)

\* __on_message(client, userdata, msg), lines 128-137
on_message(L, topic, bytes) ==
    LET d == deserialize(bytes)
    IN  IF d.exc # None
        THEN { IF o.exc # None THEN o
               \* the except block ended normally: line 133 reads the
               \* local `payload`, which was never assigned
               ELSE [o EXCEPT !.exc = "UnboundLocalError"]
               : o \in emit(L, "error", << InvalidPayloadText(topic) >>) }
        ELSE route(L, topic, d.val)

\* send(topic, data, callback_id), lines 151-152
send(L, topic, data, callback_id) ==
    LET b == serialize(data, None, callback_id)
    IN  IF b.exc # None THEN Result(L, EmptyBag, <<>>, b.exc, <<>>, <<>>)
        ELSE Result(L, EmptyBag, <<>>, None, <<>>, << ClientCall("publish", <<>>, topic, b.bytes) >>)

\* request(topic, data, return_full), lines 167-178, with request_id the
\* value drawn at line 167
request(L, request_id, topic, data, return_full) ==
    LET b == serialize(data, request_id, None)
    IN  IF b.exc # None THEN Result(L, EmptyBag, <<>>, b.exc, <<>>, <<>>)
        \* line 177: self.listeners[request_id] is a set, which has no append
        ELSE Result(Touch(L, request_id), EmptyBag, <<>>, "AttributeError", <<>>,
                    << ClientCall("publish", <<>>, topic, b.bytes) >>)

(* ---------------------------- EventEmitter ----------------------------- *)
\* on(event, listener), line 36
on(L, event, listener) == SetAt(L, event, Touch(L, event)[event] \cup {listener})

\* remove_listener(event, listener), line 50: set.remove raises KeyError
\* for an element that is not in the set
remove_listener(L, event, listener) ==
    LET L1 == Touch(L, event)
    IN  IF listener \in L1[event]
        THEN Result([L1 EXCEPT ![event] = @ \ {listener}], EmptyBag, <<>>, None, <<>>, <<>>)
        ELSE Result(L1, EmptyBag, <<>>, "KeyError", <<>>, <<>>)

\* remove_all_listeners(event), line 62
remove_all_listeners(L, event) == [e \in DOMAIN L \ {event} |-> L[e]]

\* the closure made by once(event, listener), lines 90-93: a new function
\* object on every call
FreshWrapper(L, event, listener) ==
    LET used == {x.n : x \in {y \in Touch(L, event)[event] : y.once /\ y.fn = listener}}
    IN  Wrapper(listener, CHOOSE k \in 1..(MaxOnce + 1) : k \notin used /\ \A j \in 1..(k - 1) : j \in used)

once(L, event, listener) == on(L, event, FreshWrapper(L, event, listener))

(* ------------------------------ actions -------------------------------- *)
Apply(o, op) ==
    /\ BagCardinality(tasks (+) o.sched) <= MaxTasks
    /\ listeners' = o.L
    /\ tasks' = tasks (+) o.sched
    /\ fault' = o.exc
    /\ emitted' = o.emitted
    /\ ran' = o.ran
    /\ calls' = o.calls
    /\ lastOp' = op

Quiet(L) == Result(L, EmptyBag, <<>>, None, <<>>, <<>>)

Initialize ==
    \E ts \in TopicLists :
        /\ topics' = ts
        /\ bound' = TRUE
        /\ Apply(Quiet(listeners), Op("initialize", None, -1, NoBytes, None, None))
        /\ UNCHANGED <<initialized, requests>>

Connect ==
    /\ Apply([Quiet(listeners) EXCEPT !.calls =
                << ClientCall("username_pw_set", <<>>, None, NoBytes),
                   ClientCall("connect", <<>>, None, NoBytes),
                   ClientCall("loop_start", <<>>, None, NoBytes) >>],
             Op("connect", None, -1, NoBytes, None, None))
    /\ UNCHANGED <<topics, initialized, bound, requests>>

OnConnect ==
    \E rc \in ResultCodes :
        /\ bound
        /\ initialized' = on_connect_initialized(initialized, rc)
        /\ \E o \in on_connect(listeners, topics, rc) :
              Apply(o, Op("on_connect", None, rc, NoBytes, None, None))
        /\ UNCHANGED <<topics, bound, requests>>

OnMessage ==
    \E topic \in Topics, bytes \in InboundBytes :
        /\ bound
        /\ \E o \in on_message(listeners, topic, bytes) :
              Apply(o, Op("on_message", topic, -1, bytes, None, None))
        /\ UNCHANGED <<topics, initialized, bound, requests>>

Send ==
    \E topic \in Topics, callback_id \in {None, "q1"} :
        /\ Apply(send(listeners, topic, "d", callback_id),
                 Op("send", topic, -1, NoBytes, callback_id, None))
        /\ UNCHANGED <<topics, initialized, bound, requests>>

Request ==
    \E topic \in Topics, return_full \in BOOLEAN :
        /\ Len(requests) < MaxRequests
        /\ LET request_id == uuid4(Len(requests) + 1)
               o == request(listeners, request_id, topic, "d", return_full)
           IN  /\ Apply(o, Op("request", topic, -1, NoBytes, request_id, None))
               /\ requests' = Append(requests, [id |-> request_id, exc |-> o.exc])
        /\ UNCHANGED <<topics, initialized, bound>>

On ==
    \E event \in UserEvents, f \in Callables :
        /\ Cardinality(Registered(on(listeners, event, Plain(f)))) <= MaxRegistered
        /\ Apply(Quiet(on(listeners, event, Plain(f))), Op("on", None, -1, NoBytes, event, f))
        /\ UNCHANGED <<topics, initialized, bound, requests>>

Once ==
    \E event \in UserEvents, f \in Callables :
        /\ FreshWrapper(listeners, event, f).n <= MaxOnce
        /\ Cardinality(Registered(once(listeners, event, f))) <= MaxRegistered
        /\ Apply(Quiet(once(listeners, event, f)), Op("once", None, -1, NoBytes, event, f))
        /\ UNCHANGED <<topics, initialized, bound, requests>>

RemoveListener ==
    \E event \in UserEvents, f \in Callables :
        /\ Apply(remove_listener(listeners, event, Plain(f)),
                 Op("remove_listener", None, -1, NoBytes, event, f))
        /\ UNCHANGED <<topics, initialized, bound, requests>>

RemoveAllListeners ==
    \E event \in UserEvents :
        /\ Apply(Quiet(remove_all_listeners(listeners, event)),
                 Op("remove_all_listeners", None, -1, NoBytes, event, None))
        /\ UNCHANGED <<topics, initialized, bound, requests>>

\* a consumer calls emit(event, payload) itself
Emit ==
    \E event \in UserEvents :
        /\ \E o \in emit(listeners, event, << IntPayload(UserPayload) >>) :
              Apply(o, Op("emit", None, UserPayload, NoBytes, event, None))
        /\ UNCHANGED <<topics, initialized, bound, requests>>

\* the event loop runs one scheduled task: the body of a coroutine listener
RunTask ==
    \E t \in BagToSet(tasks) :
        /\ tasks' = tasks (-) BagOf({t})
        /\ ran' = << t >>
        /\ lastOp' = Op("run_task", None, -1, NoBytes, None, t.fn)
        /\ fault' = None
        /\ emitted' = <<>>
        /\ calls' = <<>>
        /\ UNCHANGED <<topics, initialized, bound, listeners, requests>>

Next ==
    \/ Initialize
    \/ Connect
    \/ OnConnect
    \/ OnMessage
    \/ Send
    \/ Request
    \/ On
    \/ Once
    \/ RemoveListener
    \/ RemoveAllListeners
    \/ Emit
    \/ RunTask

Spec == Init /\ [][Next]_vars

TypeOK ==
    /\ initialized \in BOOLEAN
    /\ bound \in BOOLEAN
    /\ topics \in TopicLists \cup {<<>>}
    /\ DOMAIN listeners \subseteq Events
    /\ Len(requests) <= MaxRequests
    /\ BagCardinality(tasks) <= MaxTasks

(* ------------------------- reading the state --------------------------- *)
\* lifecycle of the request made by the i-th request() call, as its caller
\* sees it: the call raised, or it returned a future that is still open
RequestState(r) == IF r.exc # None THEN "Raised" ELSE "Pending"

Called == 1..Len(requests)

\* the last operation was the inbound callback for a decoded envelope
Inbound == lastOp.op = "on_message" /\ lastOp.bytes.json = "object"

Envelope == lastOp.bytes.obj

\* the last operation routed a reply to request i: received on the identity
\* topic, callback_id equal to the id of that request
ReplyRouted(i) ==
    /\ Inbound
    /\ lastOp.topic = identifier
    /\ Envelope.callback_id = requests[i].id

EmittedEvents == {emitted[k].event : k \in 1..Len(emitted)}

\* the envelope of the last inbound message was handed to the slot of id
ResolvedWith(id) == emitted = << [event |-> id, payload |-> ObjPayload(Envelope)] >>

NoListeners(event) == event \notin DOMAIN listeners \/ listeners[event] = {}

(* ------------------------------ claims --------------------------------- *)
\* C1: every request() call leaves its request in the machine
\* Pending -> {Resolved | TimedOut}: the call registers a pending request
\* that is then resolved or timed out exactly once; no call ends otherwise.
C1_RequestLifecycle ==
    \A i \in Called : RequestState(requests[i]) \in {"Pending", "Resolved", "TimedOut"}

\* C2: a request() that got no reply fails to its caller with
\* RequestTimedOut and with nothing else.
C2_FailsOnlyByTimeout ==
    \A i \in Called : requests[i].exc \in {None, "RequestTimedOut"}

\* C3: an inbound message on the identity topic whose callback_id is the id
\* of a request that was made resolves that request with the decoded
\* envelope, and no `message` event is emitted for it.
C3_ReplyResolvesRequest ==
    \A i \in Called :
        ReplyRouted(i) => fault = None /\ ResolvedWith(requests[i].id)

\* C4: a reply on the identity topic whose callback_id matches no pending
\* request is dropped silently: no `message`, no `error`, no fault out of
\* the inbound callback.
C4_UnmatchedReplyDropped ==
    (/\ Inbound
     /\ lastOp.topic = identifier
     /\ Envelope.callback_id # None
     /\ NoListeners(Envelope.callback_id))
        => fault = None /\ EmittedEvents \cap {"message", "error"} = {} /\ ran = <<>>

\* C5: a decoded inbound message without callback_id, or received on a topic
\* other than the identity, produces exactly one `message` event carrying
\* the decoded envelope.
C5_GenericRouting ==
    (Inbound /\ (Envelope.callback_id = None \/ lastOp.topic # identifier))
        => ResolvedWith("message")

\* C6: for inbound bytes that do not decode, the only effect is one `error`
\* event naming the source topic; no fault leaves the inbound callback.
C6_MalformedOnlyEmitsError ==
    (lastOp.op = "on_message" /\ lastOp.bytes.json = "invalid")
        => /\ emitted = << [event |-> "error", payload |-> InvalidPayloadText(lastOp.topic)] >>
           /\ fault = None

\* C7: onConnectResult(0) makes the state Connected, emits `connected`
\* exactly once and calls subscribe exactly once with the stored list.
C7_ConnectFanOut ==
    (lastOp.op = "on_connect" /\ lastOp.rc = 0)
        => /\ initialized
           /\ Len(emitted) = 1 /\ emitted[1].event = "connected"
           /\ calls = << ClientCall("subscribe", topics, None, NoBytes) >>

\* C8: onConnectResult(code) with code # 0 leaves the state Failed (not
\* Connected), emits `error` with the code, and calls neither subscribe nor
\* connect, also when the state was Connected before.
C8_ConnectFailure ==
    (lastOp.op = "on_connect" /\ lastOp.rc # 0)
        => /\ ~initialized
           /\ emitted = << [event |-> "error", payload |-> IntPayload(lastOp.rc)] >>
           /\ calls = <<>>

\* C9: a second initialize fails with AlreadyInitialized and leaves the
\* stored subscription list as the first call set it.
C9_InitializeOnce ==
    [][(bound /\ lastOp'.op = "initialize")
          => (fault' = "AlreadyInitialized" /\ topics' = topics)]_vars

\* C10: with two requests made, a reply to request a resolves a and only a:
\* nothing is emitted to the slot of the other request b and b stays Pending.
C10_RepliesIndependent ==
    \A a \in Called, b \in Called :
        (a # b /\ ReplyRouted(a))
            => /\ ResolvedWith(requests[a].id)
               /\ requests[b].id \notin EmittedEvents
               /\ RequestState(requests[b]) = "Pending"

(* ------------------- reading the state: EventEmitter ------------------- *)
\* listeners registered for event in registry L
ListenersOf(L, event) == IF event \in DOMAIN L THEN L[event] ELSE {}

\* every delivery that is scheduled and not yet run, or was run by the last
\* operation
Deliveries == BagToSet(tasks) \cup {ran[k] : k \in 1..Len(ran)}

\* C11: a listener registered with once is delivered the first emit of its
\* event and is then unregistered: after an emit of an event no once-wrapper
\* of that event is left in the registry.
C11_OnceDeliveredByFirstEmit ==
    emitted # <<>> => \A x \in ListenersOf(listeners, emitted[1].event) : ~x.once

\* C12: an emit makes exactly one delivery to every listener registered for
\* the event at the time of the emit, whatever the mix of on and once.
C12_EmitDeliversToAll ==
    [][emitted' # <<>>
          => BagCardinality(tasks') - BagCardinality(tasks) + Len(ran')
               = Cardinality(ListenersOf(listeners, emitted'[1].event))]_vars

\* C13: when a listener fails in an emit, every other listener registered
\* for the event is still invoked for that emit and the registrations made
\* with on are as they were.
C13_ListenerFailureIsolated ==
    [][(emitted' # <<>> /\ fault' = "ListenerError")
          => /\ BagCardinality(tasks') - BagCardinality(tasks) + Len(ran')
                  = Cardinality(ListenersOf(listeners, emitted'[1].event))
             /\ {r \in Registered(listeners') : ~r[2].once}
                  = {r \in Registered(listeners) : ~r[2].once}]_vars

\* C14: remove_listener for a listener that is not registered under the
\* event does not fail and leaves the registry unchanged.
C14_RemoveAbsentIsNoOp ==
    [][(/\ lastOp'.op = "remove_listener"
        /\ Plain(lastOp'.fn) \notin ListenersOf(listeners, lastOp'.ev))
          => (fault' = None /\ listeners' = listeners)]_vars

\* C15: serialize succeeds and deserialize gives back the data, the request
\* id, the callback id and the identity: the bytes that send and request
\* hand to publish decode to the envelope they were made from.
C15_RoundTrip ==
    lastOp.op \in {"send", "request"}
        => /\ Len(calls) = 1
           /\ deserialize(calls[1].bytes).exc = None
           /\ deserialize(calls[1].bytes).val.items
                = [ts |-> 0, data |-> "d", from_topic |-> identifier,
                   request_id |-> IF lastOp.op = "request" THEN lastOp.ev ELSE None,
                   callback_id |-> IF lastOp.op = "send" THEN lastOp.ev ELSE None]

C17_PendingTableTracksRequests ==
    /\ \A i \in Called :
          RequestState(requests[i]) = "Pending" <=> ~NoListeners(requests[i].id)
    /\ lastOp.op = "request" => ~NoListeners(lastOp.ev)

\* C18: at any moment a reply to a request that was made is routed, the
\* pending slot of that request is registered.
C18_SlotRegisteredBeforeReply ==
    [][\A i \in Called :
          (/\ lastOp'.op = "on_message"
           /\ lastOp'.topic = identifier
           /\ lastOp'.bytes.json = "object"
           /\ lastOp'.bytes.obj.callback_id = requests[i].id)
             => ~NoListeners(requests[i].id)]_vars

\* C19: emitting an event that has no listeners leaves the listener
\* registry unchanged: no key is added for the event name.
C19_EmitAddsNoKey ==
    [][(emitted' # <<>> /\ NoListeners(emitted'[1].event))
          => listeners' = listeners]_vars

\* C20: lifecycle events are emitted only for their own cause, and no
\* listener (listeners are registered for connected and error) is ever
\* handed the envelope of an inbound message, whatever its callback_id and
\* topic.
C20_LifecycleEventsOwnCause ==
    /\ \A k \in 1..Len(emitted) :
          LET e == emitted[k]
          IN  \/ e.event \notin LifecycleEvents
              \/ lastOp.op = "emit"
              \/ /\ e.event = "connected"
                 /\ lastOp.op = "on_connect" /\ lastOp.rc = 0
              \/ /\ e.event = "error"
                 /\ lastOp.op = "on_connect" /\ lastOp.rc # 0
                 /\ e.payload = IntPayload(lastOp.rc)
              \/ /\ e.event = "error"
                 /\ lastOp.op = "on_message" /\ lastOp.bytes.json = "invalid"
                 /\ e.payload = InvalidPayloadText(lastOp.topic)
              \/ /\ e.event = "message"
                 /\ Inbound
                 /\ (Envelope.callback_id = None \/ lastOp.topic # identifier)
                 /\ e.payload = ObjPayload(Envelope)
    /\ \A d \in Deliveries : d.payload.t # "obj"

\* an inbound message on the identity topic names `error` as its
\* callback_id while an `error` listener is registered
C20_Witness ==
    /\ Inbound
    /\ lastOp.topic = identifier
    /\ Envelope.callback_id = "error"
    /\ ~NoListeners("error")

====
